---- MODULE Spec2Model ----
(***************************************************************************)
(* Model of the HelloTriangleApplication of LearnVulkan (MyVulkan/src).    *)
(*                                                                         *)
(* The host program is single-threaded: main -> run -> initWindow,         *)
(* initVulkan, mainloop (glfwPollEvents; drawFrame), cleanup.  The device  *)
(* (GPU queue) is the only other agent; it finishes submitted work in      *)
(* submission order and signals the fence given to the submit.             *)
(*                                                                         *)
(* Results of driver calls (vkAcquireNextImageKHR, vkQueueSubmit,          *)
(* vkQueuePresentKHR, creation calls) and window events are inputs, drawn  *)
(* from small sets.  vkWaitForFences, vkQueueWaitIdle and vkDeviceWaitIdle *)
(* block until their condition holds (the code passes UINT64_MAX) or       *)
(* return an error; the code ignores their return value, so it goes on     *)
(* either way.  Where the code uses a pointer or handle that a failed,     *)
(* unchecked call left unset, the process dies of SIGSEGV or runs on.      *)
(***************************************************************************)
EXTENDS Integers, Sequences, FiniteSets, TLC

\* ------------------------------------------------------------------------
\* Program constants and bounds
\* ------------------------------------------------------------------------

\* HelloTriangleApplication.cpp:53
MAX_FRAMES_IN_FLIGHT == 2

\* number of images of the swapchain (driver dependent, createSwapChain)
NumImages == 3

\* largest number of physical devices vkEnumeratePhysicalDevices reports
MaxDevices == 3

\* largest number of wait calls of one run that return an error
MaxWaitErrors == 1

Slots == 0 .. (MAX_FRAMES_IN_FLIGHT - 1)
Images == 0 .. (NumImages - 1)
\* framebuffer width / height: the code only tests them against 0
\* (0 = zero, 1 = any non-zero extent)
Dims == {0, 1}
\* the time updateUniformBuffer computes: the matrices written depend on it,
\* but nothing else does (1 = any value of the clock)
Times == {1}

\* VkResult values the code distinguishes, and one that it does not
VK_SUCCESS == "VK_SUCCESS"
VK_SUBOPTIMAL_KHR == "VK_SUBOPTIMAL_KHR"
VK_ERROR_OUT_OF_DATE_KHR == "VK_ERROR_OUT_OF_DATE_KHR"
VK_ERROR_DEVICE_LOST == "VK_ERROR_DEVICE_LOST"
VkResults == {VK_SUCCESS, VK_SUBOPTIMAL_KHR, VK_ERROR_OUT_OF_DATE_KHR,
              VK_ERROR_DEVICE_LOST}
NoResult == "none"

EXIT_SUCCESS == "EXIT_SUCCESS"
EXIT_FAILURE == "EXIT_FAILURE"
\* the process was killed by a signal: main returned nothing
SIGSEGV == "SIGSEGV"
NotExited == "running"

\* what() of std::bad_optional_access
BadOptionalAccess == "bad optional access"

\* a semaphore is named by its vector and its slot
NoSemaphore == <<"none", 0>>

\* fence and swapchain image of a submission that has none
NoFence == -1
NoImage == -1

VARIABLES
  pc,                   \* position of the host thread
  callLog,              \* run(): calls and returns of the four phases
  initStep,             \* initVulkan: index of the next creation step
  initLog,              \* initVulkan: the creation steps called so far
  membersSet,           \* members that have been assigned so far
  readUnset,            \* members read by a creation step before being set
  enableValidationLayers, \* build flag (NDEBUG)
  framebufferResized_,  \* member, HelloTriangleApplication.h:214
  curFrame_,            \* member, HelloTriangleApplication.h:216
  inFlightFences_,      \* slot -> TRUE when the fence is signaled
  commandBuffers_,      \* slot -> 0 (never recorded) or 1 + recorded image
  uniformBuffers_,      \* slot -> 0 (never written) or time of last write
  uniformBuffersMapped_, \* slot -> TRUE when the pointer is a mapping, not null
  gpuQueue,             \* graphics queue: submitted, unfinished submissions
  imageAvailableSemaphores_, \* slot -> TRUE when the semaphore is signaled
  renderFinishedSemaphores_, \* slot -> TRUE when the semaphore is signaled
  presentQueue,         \* present queue: requests whose wait has not executed
  swapChainImages,      \* image -> "free", "acquired" or "queued"
  swapChainLive,        \* swapchain, image views and framebuffers exist
  fbSize,               \* what glfwGetFramebufferSize reports: <<w, h>>
  shouldClose,          \* glfwWindowShouldClose
  width, height,        \* locals of recreateSwapChain
  rcReturn,             \* call site recreateSwapChain returns to
  imageIndex,           \* local of drawFrame
  result,               \* local of drawFrame (acquire, then present)
  acquireResult,        \* what vkAcquireNextImageKHR returned in this call
  frameLog,             \* steps of the current / last drawFrame call
  lastSubmit,           \* << >> or <<slot of the latest vkQueueSubmit>>
  rcLog,                \* device calls of the recreateSwapChain of this frame
  devices,              \* pickPhysicalDevice: the enumerated devices, in order
  candidates,           \* pickPhysicalDevice: multimap score -> device
  vkPhysicalDevice_,    \* member, HelloTriangleApplication.h:182
  waitErrors,           \* number of wait calls that returned an error
  thrown,               \* what() of the exception in flight, "" if none
  exitCode              \* return value of main, or the signal that ended it

vars == <<pc, callLog, initStep, initLog, membersSet, readUnset, enableValidationLayers,
          framebufferResized_, curFrame_, inFlightFences_, commandBuffers_,
          uniformBuffers_, gpuQueue, swapChainLive, fbSize, shouldClose,
          width, height, rcReturn, imageIndex, result, acquireResult,
          frameLog, lastSubmit, rcLog, devices, candidates, vkPhysicalDevice_,
          imageAvailableSemaphores_, renderFinishedSemaphores_, presentQueue,
          swapChainImages, uniformBuffersMapped_, waitErrors, thrown,
          exitCode>>

\* groups for UNCHANGED
initVars == <<initStep, initLog, membersSet, readUnset,
              enableValidationLayers, uniformBuffersMapped_>>
frameMembers == <<curFrame_, inFlightFences_, commandBuffers_, uniformBuffers_>>
windowVars == <<fbSize, shouldClose>>
rcLocals == <<width, height, rcReturn>>
dfLocals == <<imageIndex, result, acquireResult>>
mainVars == <<thrown, exitCode>>
pickVars == <<devices, candidates, vkPhysicalDevice_>>
deviceVars == <<imageAvailableSemaphores_, renderFinishedSemaphores_,
               presentQueue, swapChainImages>>


\* ------------------------------------------------------------------------
\* run() and initVulkan()
\* ------------------------------------------------------------------------

\* run(): the phase called after phase p has returned ("return" = run returns)
NextPhaseNoInit(p) ==
  CASE p = "initWindow" -> "mainloop"
    [] p = "initVulkan" -> "cleanup"
    [] p = "mainloop"   -> "initVulkan"
    [] OTHER            -> "return"

NextPhase(p) ==
  CASE p = "initWindow" -> "initVulkan"
    [] p = "initVulkan" -> "mainloop"
    [] p = "mainloop"   -> "cleanup"
    [] OTHER            -> "return"

\* position of the host thread at the start of a phase
PhaseEntry(p) ==
  CASE p = "initWindow" -> "initWindow"
    [] p = "initVulkan" -> "initVulkan"
    [] p = "mainloop"   -> "ml_check"
    [] p = "cleanup"    -> "cleanup"
    [] OTHER            -> "run_returned"

\* one phase returns and run() calls the next one
Returned(p, log) ==
  LET n == NextPhase(p)
  IN  IF n = "return" THEN Append(log, <<"ret", p>>)
      ELSE log \o << <<"ret", p>>, <<"call", n>> >>

\* initVulkan: the creation steps in call order, with a swapped pair
InitOrderFramebuffersFirst ==
  << "createInstance", "setupDebugMessenger", "createSurface",
     "pickPhysicalDevice", "createLogicalDevice", "createSwapChain",
     "createImageViews", "createFramebuffers", "createDescriptorSetLayout",
     "createGraphicsPipeline", "createRenderPass", "createCommandPool",
     "createVertexBuffer", "createIndexBuffer", "createUniformBuffers",
     "createDescriptorPool", "createDescriptorSets", "createCommandBuffers",
     "createSyncObjects" >>

InitOrder ==
  << "createInstance", "setupDebugMessenger", "createSurface",
     "pickPhysicalDevice", "createLogicalDevice", "createSwapChain",
     "createImageViews", "createRenderPass", "createDescriptorSetLayout",
     "createGraphicsPipeline", "createFramebuffers", "createCommandPool",
     "createVertexBuffer", "createIndexBuffer", "createUniformBuffers",
     "createDescriptorPool", "createDescriptorSets", "createCommandBuffers",
     "createSyncObjects" >>

\* members a creation step reads that it has not assigned itself before the
\* read (helpers it calls included)
Reads(step) ==
  CASE step = "createInstance" -> {}
    [] step = "setupDebugMessenger" ->
         IF enableValidationLayers THEN {"vkInstance_"} ELSE {}
    [] step = "createSurface" -> {"vkInstance_", "window_"}
    [] step = "pickPhysicalDevice" -> {"vkInstance_"}
    [] step = "createLogicalDevice" -> {"vkPhysicalDevice_", "surface_"}
    [] step = "createSwapChain" ->
         {"vkPhysicalDevice_", "surface_", "window_", "logicalDevice_"}
    [] step = "createImageViews" ->
         {"swapChainImages_", "swapChainImageFormat_", "logicalDevice_"}
    [] step = "createRenderPass" -> {"swapChainImageFormat_", "logicalDevice_"}
    [] step = "createDescriptorSetLayout" -> {"logicalDevice_"}
    [] step = "createGraphicsPipeline" ->
         {"swapChainExtent_", "descriptorSetLayout_", "renderPass_",
          "logicalDevice_"}
    [] step = "createFramebuffers" ->
         {"swapChainImageViews_", "renderPass_", "swapChainExtent_",
          "logicalDevice_"}
    [] step = "createCommandPool" ->
         {"vkPhysicalDevice_", "surface_", "logicalDevice_"}
    [] step = "createVertexBuffer" ->
         {"logicalDevice_", "vkPhysicalDevice_", "commandPool_",
          "graphicsQueue_"}
    [] step = "createIndexBuffer" ->
         {"logicalDevice_", "vkPhysicalDevice_", "commandPool_",
          "graphicsQueue_"}
    [] step = "createUniformBuffers" -> {"logicalDevice_", "vkPhysicalDevice_"}
    [] step = "createDescriptorPool" -> {"logicalDevice_"}
    [] step = "createDescriptorSets" ->
         {"descriptorSetLayout_", "descriptorPool_", "uniformBuffers_",
          "logicalDevice_"}
    [] step = "createCommandBuffers" -> {"commandPool_", "logicalDevice_"}
    [] step = "createSyncObjects" -> {"logicalDevice_"}
    [] OTHER -> {}

\* members a creation step assigns
Writes(step) ==
  CASE step = "createInstance" -> {"vkInstance_"}
    [] step = "setupDebugMessenger" ->
         IF enableValidationLayers THEN {"debugMessenger_"} ELSE {}
    [] step = "createSurface" -> {"surface_"}
    [] step = "pickPhysicalDevice" -> {"vkPhysicalDevice_"}
    [] step = "createLogicalDevice" ->
         {"logicalDevice_", "graphicsQueue_", "presentQueue_"}
    [] step = "createSwapChain" ->
         {"swapChain_", "swapChainImages_", "swapChainImageFormat_",
          "swapChainExtent_"}
    [] step = "createImageViews" -> {"swapChainImageViews_"}
    [] step = "createRenderPass" -> {"renderPass_"}
    [] step = "createDescriptorSetLayout" -> {"descriptorSetLayout_"}
    [] step = "createGraphicsPipeline" -> {"pipelineLayout_", "gfxPipeline_"}
    [] step = "createFramebuffers" -> {"swapChainFramebuffers_"}
    [] step = "createCommandPool" -> {"commandPool_"}
    [] step = "createVertexBuffer" -> {"vertexBuffer_", "vertexBufferMemory_"}
    [] step = "createIndexBuffer" -> {"indexBuffer_", "indexBufferMemory_"}
    [] step = "createUniformBuffers" ->
         {"uniformBuffers_", "uniformBuffersMemory_", "uniformBuffersMapped_"}
    [] step = "createDescriptorPool" -> {"descriptorPool_"}
    [] step = "createDescriptorSets" -> {"descriptorSets_"}
    [] step = "createCommandBuffers" -> {"commandBuffers_"}
    [] step = "createSyncObjects" ->
         {"imageAvailableSemaphores_", "renderFinishedSemaphores_",
          "inFlightFences_"}
    [] OTHER -> {}

\* what() of the exceptions a creation step can throw
Throws(step) ==
  CASE step = "createInstance" ->
         (IF enableValidationLayers
          THEN {"Validation layers requested, but not available!"} ELSE {})
         \cup {"Failed to create instance!"}
    [] step = "setupDebugMessenger" ->
         IF enableValidationLayers
         THEN {"Failed to set up debug messenger"} ELSE {}
    [] step = "createSurface" -> {"Failed to create window surface."}
    [] step = "pickPhysicalDevice" ->
         {"Failed to find GPUs with Vulkan Support!",
          "Failed to find a suitable GPU"}
    [] step = "createLogicalDevice" ->
         {BadOptionalAccess, "Failed to create logical device!"}
    [] step = "createSwapChain" ->
         {BadOptionalAccess, "Failed to create swap chain!"}
    [] step = "createImageViews" -> {"Failed to create image views!"}
    [] step = "createRenderPass" -> {"failed to create render pass!"}
    [] step = "createDescriptorSetLayout" ->
         {"Failed to create descriptor set layout!"}
    [] step = "createGraphicsPipeline" ->
         {"Failed to Open File!", "Failed to create shader module!",
          "failed to create pipeline layout!",
          "Failed to create Graphics Pipeline!"}
    [] step = "createFramebuffers" -> {"Failed to create Framebuffer!"}
    [] step = "createCommandPool" ->
         {BadOptionalAccess, "Failed to create command pool!"}
    [] step \in {"createVertexBuffer", "createIndexBuffer",
                 "createUniformBuffers"} ->
         {"Failed to create buffer!", "Failed to allocate buffer memory!",
          "Failed to find suitable memory type!"}
    [] step = "createDescriptorPool" -> {"Failed to create descriptor pool!"}
    [] step = "createDescriptorSets" -> {"Failed to allocate descriptor sets"}
    [] step = "createCommandBuffers" -> {"Failed to allocate command buffers!"}
    [] step = "createSyncObjects" -> {"Failed to create Semaphores or Fences"}
    [] OTHER -> {}

\* the creation steps that end in undefined behaviour on some input, where
\* the process dies of SIGSEGV or runs on: chooseSwapSurfaceFormat returns
\* availableFormats[0] of an empty vector when the surface reports no format;
\* createVertexBuffer and createIndexBuffer copy to the pointer a failed
\* vkMapMemory left uninitialised, and copyBuffer records to the handle a
\* failed vkAllocateCommandBuffers left uninitialised
Crashes(step) ==
  step \in {"createSwapChain", "createVertexBuffer", "createIndexBuffer"}

\* the sets of members a creation step can have assigned when it crashes
\* (in the memcpy before its buffer is created, or in copyBuffer after it)
WritesBeforeCrash(step) ==
  IF step \in {"createVertexBuffer", "createIndexBuffer"}
  THEN {{}, Writes(step)} ELSE {{}}

\* the sets of members a creation step can have assigned when it throws msg
\* (a vector that was resized counts as assigned)
WritesBeforeThrow(step, msg) ==
  CASE step \in {"createImageViews", "createFramebuffers",
                 "createUniformBuffers", "createDescriptorSets",
                 "createCommandBuffers", "createSyncObjects"} ->
         {Writes(step)}
    [] step = "createGraphicsPipeline" ->
         IF msg = "Failed to create Graphics Pipeline!"
         THEN {{"pipelineLayout_"}} ELSE {{}}
    [] step = "createVertexBuffer" ->
         IF msg = "Failed to create buffer!"
         THEN {{}} ELSE {{}, {"vertexBuffer_"}}
    [] step = "createIndexBuffer" ->
         IF msg = "Failed to create buffer!"
         THEN {{}} ELSE {{}, {"indexBuffer_"}}
    [] OTHER -> {{}}

\* createVertexBuffer and createIndexBuffer end in copyBuffer, which submits
\* a copy to the graphics queue and waits for the queue to be idle
CopySteps == {"createVertexBuffer", "createIndexBuffer"}

\* vkQueueSubmit(graphicsQueue_, 1, &submitInfo, VK_NULL_HANDLE) of copyBuffer
CopySubmission ==
  [fence |-> NoFence, wait |-> NoSemaphore, signal |-> NoSemaphore,
   image |-> NoImage]

\* createSyncObjects: fenceInfo.flags = VK_FENCE_CREATE_SIGNALED_BIT
CreatedFences == [f \in Slots |-> TRUE]

\* createSyncObjects threw in loop iteration k (0-based): the fences of the
\* slots before k exist, signaled
FencesBeforeThrow(k) == [f \in Slots |-> CreatedFences[f] /\ f < k]

\* createUniformBuffers: what the vkMapMemory calls, whose results the code
\* ignores, can leave in uniformBuffersMapped_ (a failed call leaves the null
\* pointer of the resize)
MappedOutcomes == [Slots -> BOOLEAN]

\* createUniformBuffers threw in loop iteration k (0-based): the buffers of
\* the slots before k went through vkMapMemory with outcome m
MappedBeforeThrow(k, m) == [f \in Slots |-> m[f] /\ f < k]

\* the call of pickPhysicalDevice is modelled step by step (PickEnumerate,
\* PickRate, PickSelect)
PickStep == "pickPhysicalDevice"

\* ------------------------------------------------------------------------
\* Initial state: main has constructed app and is about to call app.run()
\* ------------------------------------------------------------------------

InitApp ==
  /\ callLog = << <<"call", "initWindow">> >>
  /\ initStep = 1
  /\ initLog = << >>
  /\ membersSet = {"vkPhysicalDevice_", "framebufferResized_", "curFrame_"}
  /\ readUnset = {}
  /\ enableValidationLayers \in BOOLEAN
  /\ framebufferResized_ = FALSE
  /\ curFrame_ = 0
  /\ inFlightFences_ = [f \in Slots |-> FALSE]
  /\ commandBuffers_ = [f \in Slots |-> 0]
  /\ uniformBuffers_ = [f \in Slots |-> 0]
  /\ uniformBuffersMapped_ = [f \in Slots |-> FALSE]
  /\ gpuQueue = << >>
  /\ imageAvailableSemaphores_ = [f \in Slots |-> FALSE]
  /\ renderFinishedSemaphores_ = [f \in Slots |-> FALSE]
  /\ presentQueue = << >>
  /\ swapChainImages = [i \in Images |-> "free"]
  /\ swapChainLive = FALSE
  /\ fbSize = <<1, 1>>
  /\ shouldClose = FALSE
  /\ width = 0
  /\ height = 0
  /\ rcReturn = "none"
  /\ imageIndex = 0
  /\ result = NoResult
  /\ acquireResult = NoResult
  /\ frameLog = << >>
  /\ lastSubmit = << >>
  /\ rcLog = << >>
  /\ thrown = ""
  /\ exitCode = NotExited

\* a device handle: 0 is VK_NULL_HANDLE, k > 0 the k-th enumerated device
VK_NULL_HANDLE == 0

\* the device lists of the runs of the whole program: no device, one
\* integrated device without geometry shader, one discrete device with it
RunDeviceLists ==
  { << >>,
    << [geometryShader |-> FALSE, discrete |-> FALSE,
        maxImageDimension2D |-> [hi |-> 0, lo |-> 1000]] >>,
    << [geometryShader |-> TRUE, discrete |-> TRUE,
        maxImageDimension2D |-> [hi |-> 0, lo |-> 1000]] >> }

Init ==
  /\ pc = "initWindow"
  /\ InitApp
  /\ devices \in RunDeviceLists
  /\ candidates = << >>
  /\ vkPhysicalDevice_ = VK_NULL_HANDLE
  /\ waitErrors = 0

\* throw of an exception with what() = msg: unwinds to the catch clause of
\* main
Throw(msg) ==
  /\ thrown' = msg
  /\ pc' = "catch"

\* the process is killed by SIGSEGV
Crash ==
  /\ exitCode' = SIGSEGV
  /\ pc' = "crashed"

\* vkQueueWaitIdle(graphicsQueue_) has nothing left to wait for
QueueIdle == gpuQueue = << >>

\* a wait call (vkWaitForFences, vkQueueWaitIdle, vkDeviceWaitIdle) returns:
\* once done holds, or with an error such as VK_ERROR_DEVICE_LOST while done
\* does not hold; the code never looks at the result (so an error returned
\* when done holds is the same step as a success)
WaitReturns(done) ==
  \/ done /\ UNCHANGED waitErrors
  \/ ~done /\ waitErrors < MaxWaitErrors /\ waitErrors' = waitErrors + 1

\* initWindow(): creates the window and registers the resize callback
InitWindow ==
  /\ pc = "initWindow"
  /\ membersSet' = membersSet \cup {"window_"}
  /\ callLog' = Returned("initWindow", callLog)
  /\ pc' = PhaseEntry(NextPhase("initWindow"))
  /\ UNCHANGED <<initStep, initLog, readUnset, enableValidationLayers,
                 uniformBuffersMapped_,
                 framebufferResized_, frameMembers, gpuQueue, swapChainLive,
                 windowVars, rcLocals, dfLocals, frameLog, mainVars,
                 lastSubmit, rcLog, pickVars, deviceVars, waitErrors>>

\* initWindow(): glfwCreateWindow returns NULL (the code does not look) and
\* glfwSetWindowUserPointer(window_, this) kills the process
InitWindowCrash ==
  /\ pc = "initWindow"
  /\ membersSet' = membersSet \cup {"window_"}
  /\ Crash
  /\ UNCHANGED <<callLog, initStep, initLog, readUnset,
                 enableValidationLayers, uniformBuffersMapped_,
                 framebufferResized_, frameMembers, gpuQueue, swapChainLive,
                 windowVars, rcLocals, dfLocals, frameLog, thrown,
                 lastSubmit, rcLog, pickVars, deviceVars, waitErrors>>

\* initVulkan(): the next creation step succeeds; pickPhysicalDevice has
\* been called and is about to enumerate; a step that copies a buffer has
\* called vkQueueSubmit in copyBuffer (whose result the code ignores: a
\* failed submit queues nothing) and is about to wait for the queue
InitVulkanStep ==
  /\ pc = "initVulkan"
  /\ initStep <= Len(InitOrder)
  /\ LET step == InitOrder[initStep]
     IN  /\ initLog' = Append(initLog, step)
         /\ readUnset' = readUnset \cup (Reads(step) \ membersSet)
         /\ membersSet' = membersSet \cup Writes(step)
         /\ swapChainLive' =
              IF step = "createFramebuffers" THEN TRUE ELSE swapChainLive
         /\ inFlightFences_' =
              IF step = "createSyncObjects" THEN CreatedFences
              ELSE inFlightFences_
         /\ IF step = "createUniformBuffers"
            THEN uniformBuffersMapped_' \in MappedOutcomes
            ELSE UNCHANGED uniformBuffersMapped_
         /\ CASE step \in CopySteps ->
                   /\ \E submitted \in BOOLEAN :
                        gpuQueue' = IF submitted
                                    THEN Append(gpuQueue, CopySubmission)
                                    ELSE gpuQueue
                   /\ pc' = "queueWaitIdle"
                   /\ UNCHANGED initStep
              [] step = PickStep ->
                   /\ pc' = "pick_enumerate"
                   /\ UNCHANGED <<initStep, gpuQueue>>
              [] OTHER ->
                   /\ initStep' = initStep + 1
                   /\ UNCHANGED <<pc, gpuQueue>>
  /\ UNCHANGED <<callLog, enableValidationLayers, framebufferResized_,
                 curFrame_, commandBuffers_, uniformBuffers_,
                 windowVars, rcLocals, dfLocals, frameLog, mainVars,
                 lastSubmit, rcLog, pickVars, deviceVars, waitErrors>>

\* copyBuffer: vkQueueWaitIdle(graphicsQueue_) returns; the creation step
\* frees its staging objects and returns
InitQueueWaitIdle ==
  /\ pc = "queueWaitIdle"
  /\ WaitReturns(QueueIdle)
  /\ initStep' = initStep + 1
  /\ pc' = "initVulkan"
  /\ UNCHANGED <<callLog, initLog, membersSet, readUnset,
                 enableValidationLayers, uniformBuffersMapped_,
                 framebufferResized_, frameMembers, gpuQueue, swapChainLive,
                 windowVars, rcLocals, dfLocals, frameLog, mainVars,
                 lastSubmit, rcLog, pickVars, deviceVars>>

\* copyBuffer: vkQueueWaitIdle(graphicsQueue_) returns and
\* vkFreeCommandBuffers, given the handle a failed vkAllocateCommandBuffers
\* left uninitialised, kills the process
InitQueueWaitIdleCrash ==
  /\ pc = "queueWaitIdle"
  /\ WaitReturns(QueueIdle)
  /\ Crash
  /\ UNCHANGED <<callLog, initStep, initLog, membersSet, readUnset,
                 enableValidationLayers, uniformBuffersMapped_,
                 framebufferResized_, frameMembers, gpuQueue, swapChainLive,
                 windowVars, rcLocals, dfLocals, frameLog, thrown,
                 lastSubmit, rcLog, pickVars, deviceVars>>

\* initVulkan(): the next creation step throws, having done part of its work
\* (pickPhysicalDevice throws in PickEnumerate and PickSelect)
InitVulkanThrow ==
  /\ pc = "initVulkan"
  /\ initStep <= Len(InitOrder)
  /\ InitOrder[initStep] # PickStep
  /\ LET step == InitOrder[initStep]
     IN  /\ initLog' = Append(initLog, step)
         /\ \E msg \in Throws(step) :
              /\ Throw(msg)
              /\ \E w \in WritesBeforeThrow(step, msg) :
                   membersSet' = membersSet \cup w
         /\ readUnset' = readUnset \cup (Reads(step) \ membersSet)
         /\ IF step = "createSyncObjects"
            THEN \E k \in Slots : inFlightFences_' = FencesBeforeThrow(k)
            ELSE UNCHANGED inFlightFences_
         /\ IF step = "createUniformBuffers"
            THEN \E k \in Slots, m \in MappedOutcomes :
                   uniformBuffersMapped_' = MappedBeforeThrow(k, m)
            ELSE UNCHANGED uniformBuffersMapped_
  /\ UNCHANGED <<callLog, initStep, enableValidationLayers,
                 framebufferResized_, curFrame_, commandBuffers_,
                 uniformBuffers_, gpuQueue, swapChainLive,
                 windowVars, rcLocals, dfLocals, frameLog, exitCode,
                 lastSubmit, rcLog, pickVars, deviceVars, waitErrors>>

\* initVulkan(): the next creation step runs into undefined behaviour and
\* the process dies before the step has submitted anything (in
\* chooseSwapSurfaceFormat, in the memcpy to the staging buffer, or in the
\* recording calls of copyBuffer)
InitVulkanCrash ==
  /\ pc = "initVulkan"
  /\ initStep <= Len(InitOrder)
  /\ Crashes(InitOrder[initStep])
  /\ initLog' = Append(initLog, InitOrder[initStep])
  /\ readUnset' = readUnset \cup (Reads(InitOrder[initStep]) \ membersSet)
  /\ \E w \in WritesBeforeCrash(InitOrder[initStep]) :
       membersSet' = membersSet \cup w
  /\ Crash
  /\ UNCHANGED <<callLog, initStep, enableValidationLayers,
                 uniformBuffersMapped_, framebufferResized_, frameMembers, gpuQueue, swapChainLive,
                 windowVars, rcLocals, dfLocals, frameLog, thrown,
                 lastSubmit, rcLog, pickVars, deviceVars, waitErrors>>

\* initVulkan() returns after its last creation step
InitVulkanReturn ==
  /\ pc = "initVulkan"
  /\ initStep > Len(InitOrder)
  /\ callLog' = Returned("initVulkan", callLog)
  /\ pc' = PhaseEntry(NextPhase("initVulkan"))
  /\ UNCHANGED <<initVars, framebufferResized_, frameMembers, gpuQueue,
                 swapChainLive, windowVars, rcLocals, dfLocals, frameLog, mainVars,
                 lastSubmit, rcLog, pickVars, deviceVars, waitErrors>>

\* ------------------------------------------------------------------------
\* Window events (GLFW)
\* ------------------------------------------------------------------------

\* windowResized(), called by framebufferResizeCallback
windowResized == TRUE

\* what one glfwPollEvents / glfwWaitEvents call can deliver: a close
\* request, a framebuffer-size event with the new size, both, or neither
Deliveries ==
  { d \in [close : BOOLEAN, resize : BOOLEAN, size : Dims \X Dims] :
      (~d.resize) => d.size = <<0, 0>> }

\* effect of the delivered events on the window and on the application
Deliver(d) ==
  /\ shouldClose' = (shouldClose \/ d.close)
  /\ fbSize' = IF d.resize THEN d.size ELSE fbSize
  /\ framebufferResized_' =
       IF d.resize THEN windowResized ELSE framebufferResized_

\* ------------------------------------------------------------------------
\* mainloop()
\* ------------------------------------------------------------------------

\* drawFrame(): its steps in program order, with the fence reset moved up
FrameStepsResetBeforeAcquire ==
  << "waitForFences", "resetFences", "acquire", "record",
     "updateUniformBuffer", "submit", "present", "check" >>

\* drawFrame(): its steps in program order, with record and submit swapped
FrameStepsSubmitBeforeRecord ==
  << "waitForFences", "acquire", "resetFences", "submit",
     "updateUniformBuffer", "record", "present", "check" >>

FrameSteps ==
  << "waitForFences", "acquire", "resetFences", "record",
     "updateUniformBuffer", "submit", "present", "check" >>

\* the step that follows step s of drawFrame
StepAfter(s) ==
  LET i == CHOOSE k \in 1 .. Len(FrameSteps) : FrameSteps[k] = s
  IN  FrameSteps[i + 1]

\* while (!glfwWindowShouldClose(window_)) { glfwPollEvents(); drawFrame(); }
MlPollEvents ==
  /\ pc = "ml_check"
  /\ ~shouldClose
  /\ \E d \in Deliveries : Deliver(d)
  /\ pc' = FrameSteps[1]
  /\ frameLog' = << >>
  /\ imageIndex' = 0
  /\ result' = NoResult
  /\ acquireResult' = NoResult
  /\ rcLog' = << >>
  /\ UNCHANGED <<callLog, initVars, frameMembers, gpuQueue, swapChainLive,
                 rcLocals, mainVars, lastSubmit, pickVars, deviceVars,
                 waitErrors>>

\* the loop condition fails
MlExit ==
  /\ pc = "ml_check"
  /\ shouldClose
  /\ pc' = "ml_idle"
  /\ UNCHANGED <<callLog, initVars, framebufferResized_, frameMembers,
                 gpuQueue, swapChainLive, windowVars, rcLocals, dfLocals,
                 frameLog, mainVars, lastSubmit, rcLog, pickVars, deviceVars,
                 waitErrors>>

\* vkDeviceWaitIdle(logicalDevice_) returns: no queue has unfinished work
DeviceIdle == gpuQueue = << >> /\ presentQueue = << >>

\* vkDeviceWaitIdle(logicalDevice_); mainloop returns
MlDeviceWaitIdle ==
  /\ pc = "ml_idle"
  /\ WaitReturns(DeviceIdle)
  /\ callLog' = Returned("mainloop", callLog)
  /\ pc' = PhaseEntry(NextPhase("mainloop"))
  /\ UNCHANGED <<initVars, framebufferResized_, frameMembers, gpuQueue,
                 swapChainLive, windowVars, rcLocals, dfLocals, frameLog, mainVars,
                 lastSubmit, rcLog, pickVars, deviceVars>>

\* the queued operations q after cleanupSwapChain: the images they work on
\* are gone
Retired(q) == [i \in DOMAIN q |-> [q[i] EXCEPT !.image = NoImage]]

\* cleanupSwapChain(): framebuffers, image views and swapchain are destroyed,
\* whatever the queues still hold
cleanupSwapChain ==
  /\ swapChainLive' = FALSE
  /\ swapChainImages' = [i \in Images |-> "free"]
  /\ gpuQueue' = Retired(gpuQueue)
  /\ presentQueue' = Retired(presentQueue)

\* cleanup(): cleanupSwapChain, then every other object, the device and the
\* instance are destroyed; run returns
Cleanup ==
  /\ pc = "cleanup"
  /\ cleanupSwapChain
  /\ callLog' = Returned("cleanup", callLog)
  /\ pc' = PhaseEntry(NextPhase("cleanup"))
  /\ UNCHANGED <<initVars, framebufferResized_, frameMembers,
                 windowVars, rcLocals, dfLocals, frameLog, mainVars,
                 lastSubmit, rcLog, pickVars, imageAvailableSemaphores_,
                 renderFinishedSemaphores_, waitErrors>>

\* ------------------------------------------------------------------------
\* main()
\* ------------------------------------------------------------------------

\* return value of main: caught = the catch clause was entered
MainReturnValue(caught) == IF caught THEN EXIT_FAILURE ELSE EXIT_SUCCESS

\* catch (const std::exception& e) { ...; return EXIT_FAILURE; }
MainCatch ==
  /\ pc = "catch"
  /\ exitCode' = MainReturnValue(TRUE)
  /\ pc' = "exited"
  /\ UNCHANGED <<callLog, initVars, framebufferResized_, frameMembers,
                 gpuQueue, swapChainLive, windowVars, rcLocals, dfLocals,
                 frameLog, thrown, lastSubmit, rcLog, pickVars, deviceVars,
                 waitErrors>>

\* app.run() returned; return EXIT_SUCCESS;
MainReturn ==
  /\ pc = "run_returned"
  /\ exitCode' = MainReturnValue(FALSE)
  /\ pc' = "exited"
  /\ UNCHANGED <<callLog, initVars, framebufferResized_, frameMembers,
                 gpuQueue, swapChainLive, windowVars, rcLocals, dfLocals,
                 frameLog, thrown, lastSubmit, rcLog, pickVars, deviceVars,
                 waitErrors>>

\* ------------------------------------------------------------------------
\* The device
\* ------------------------------------------------------------------------

\* the semaphore a queue operation waits on is signaled (an operation
\* without wait semaphore has nothing to wait for)
Signaled(sem) ==
  IF sem = NoSemaphore THEN TRUE
  ELSE IF sem[1] = "imageAvailable" THEN imageAvailableSemaphores_[sem[2]]
  ELSE renderFinishedSemaphores_[sem[2]]

\* the logical device exists and the process runs
DeviceRuns == exitCode = NotExited /\ pc # "run_returned"

\* vector kind after a queue operation has waited on (and so unsignaled)
\* semaphore w and signaled semaphore s
SemAfter(kind, sems, w, s) ==
  [f \in Slots |-> IF <<kind, f>> = s THEN TRUE
                   ELSE IF <<kind, f>> = w THEN FALSE
                   ELSE sems[f]]

\* the graphics queue executes its oldest submission: it waits on the wait
\* semaphore, runs the command buffer, signals the signal semaphore and the
\* fence (where the submission names one)
GpuFinish ==
  /\ gpuQueue # << >>
  /\ DeviceRuns
  /\ LET s == Head(gpuQueue)
     IN  /\ Signaled(s.wait)
         /\ inFlightFences_' =
              [f \in Slots |-> inFlightFences_[f] \/ f = s.fence]
         /\ imageAvailableSemaphores_' =
              SemAfter("imageAvailable", imageAvailableSemaphores_,
                       s.wait, s.signal)
         /\ renderFinishedSemaphores_' =
              SemAfter("renderFinished", renderFinishedSemaphores_,
                       s.wait, s.signal)
  /\ gpuQueue' = Tail(gpuQueue)
  /\ UNCHANGED <<pc, callLog, initVars, framebufferResized_, curFrame_,
                 commandBuffers_, uniformBuffers_, swapChainLive, windowVars,
                 rcLocals, dfLocals, frameLog, mainVars, lastSubmit, rcLog,
                 pickVars, presentQueue, swapChainImages, waitErrors>>

\* the present queue executes its oldest request: it waits on the wait
\* semaphore and hands the image to the presentation engine, which releases
\* it for a later acquire
PresentExec ==
  /\ presentQueue # << >>
  /\ DeviceRuns
  /\ LET p == Head(presentQueue)
     IN  /\ Signaled(p.wait)
         /\ imageAvailableSemaphores_' =
              SemAfter("imageAvailable", imageAvailableSemaphores_,
                       p.wait, NoSemaphore)
         /\ renderFinishedSemaphores_' =
              SemAfter("renderFinished", renderFinishedSemaphores_,
                       p.wait, NoSemaphore)
         /\ swapChainImages' =
              [i \in Images |->
                 IF i = p.image THEN "free" ELSE swapChainImages[i]]
  /\ presentQueue' = Tail(presentQueue)
  /\ UNCHANGED <<pc, callLog, initVars, framebufferResized_, frameMembers,
                 gpuQueue, swapChainLive, windowVars, rcLocals, dfLocals,
                 frameLog, mainVars, lastSubmit, rcLog, pickVars,
                 waitErrors>>

\* ------------------------------------------------------------------------
\* drawFrame()
\* ------------------------------------------------------------------------

\* vkWaitForFences(.., &inFlightFences_[f], VK_TRUE, UINT64_MAX) returns
FenceWaitDone(f) == inFlightFences_[f]

AcquireBranchOutOfDateRenders(res) ==
  IF res \in {VK_SUCCESS, VK_SUBOPTIMAL_KHR, VK_ERROR_OUT_OF_DATE_KHR}
  THEN "render" ELSE "throw"

AcquireBranchSuboptimalThrows(res) ==
  IF res = VK_ERROR_OUT_OF_DATE_KHR THEN "recreate"
  ELSE IF res # VK_SUCCESS THEN "throw"
  ELSE "render"

\* the branch taken on the result of vkAcquireNextImageKHR
AcquireBranch(res) ==
  IF res = VK_ERROR_OUT_OF_DATE_KHR THEN "recreate"
  ELSE IF res # VK_SUCCESS /\ res # VK_SUBOPTIMAL_KHR THEN "throw"
  ELSE "render"

PresentBranchIgnoresResize(res, resized) ==
  IF res = VK_ERROR_OUT_OF_DATE_KHR \/ res = VK_SUBOPTIMAL_KHR
  THEN "recreate"
  ELSE IF res # VK_SUCCESS THEN "throw"
  ELSE "advance"

\* the branch taken on the result of vkQueuePresentKHR
PresentBranch(res, resized) ==
  IF res = VK_ERROR_OUT_OF_DATE_KHR \/ res = VK_SUBOPTIMAL_KHR \/ resized
  THEN "recreate"
  ELSE IF res # VK_SUCCESS THEN "throw"
  ELSE "advance"

\* vkWaitForFences on the fence of the current slot
DfWaitForFences ==
  /\ pc = "waitForFences"
  /\ WaitReturns(FenceWaitDone(curFrame_))
  /\ frameLog' = Append(frameLog, "waitForFences")
  /\ pc' = StepAfter("waitForFences")
  /\ UNCHANGED <<callLog, initVars, framebufferResized_, frameMembers,
                 gpuQueue, swapChainLive, windowVars, rcLocals, dfLocals, mainVars,
                 lastSubmit, rcLog, pickVars, deviceVars>>

\* the semaphore passed to vkAcquireNextImageKHR in a frame of slot c
AcquireSemaphore(c) == <<"imageAvailable", c>>

WaitSemaphoresRenderFinished(c) == <<"renderFinished", c>>

\* VkSemaphore waitSemaphores[] = { imageAvailableSemaphores_[curFrame_] }
WaitSemaphores(c) == <<"imageAvailable", c>>

\* VkSemaphore signalSemaphores[] = { renderFinishedSemaphores_[curFrame_] }
SignalSemaphores(c) == <<"renderFinished", c>>

\* vkAcquireNextImageKHR hands out image img
AcquiresImage(res) == res \in {VK_SUCCESS, VK_SUBOPTIMAL_KHR}

\* vkAcquireNextImageKHR and the branch on its result
DfAcquire ==
  /\ pc = "acquire"
  /\ \E res \in VkResults, img \in Images :
       /\ IF AcquiresImage(res)
          THEN /\ swapChainImages[img] = "free"
               /\ swapChainImages' =
                    [swapChainImages EXCEPT ![img] = "acquired"]
               /\ imageAvailableSemaphores_' =
                    SemAfter("imageAvailable", imageAvailableSemaphores_,
                             NoSemaphore, AcquireSemaphore(curFrame_))
          ELSE /\ img = imageIndex
               /\ UNCHANGED <<swapChainImages, imageAvailableSemaphores_>>
       /\ result' = res
       /\ acquireResult' = res
       /\ imageIndex' = img
       /\ CASE AcquireBranch(res) = "recreate" ->
                 /\ framebufferResized_' = FALSE
                 /\ rcReturn' = "return"
                 /\ pc' = "rc_getSize"
                 /\ UNCHANGED thrown
            [] AcquireBranch(res) = "throw" ->
                 /\ Throw("Failed to acquire swap chain image!")
                 /\ UNCHANGED <<framebufferResized_, rcReturn>>
            [] OTHER ->
                 /\ pc' = StepAfter("acquire")
                 /\ UNCHANGED <<framebufferResized_, rcReturn, thrown>>
  /\ frameLog' = Append(frameLog, "acquire")
  /\ UNCHANGED <<callLog, initVars, frameMembers, gpuQueue, swapChainLive,
                 windowVars, width, height, exitCode, lastSubmit, rcLog,
                 pickVars, renderFinishedSemaphores_, presentQueue,
                 waitErrors>>

\* vkResetFences on the fence of the current slot
DfResetFences ==
  /\ pc = "resetFences"
  /\ inFlightFences_' = [inFlightFences_ EXCEPT ![curFrame_] = FALSE]
  /\ frameLog' = Append(frameLog, "resetFences")
  /\ pc' = StepAfter("resetFences")
  /\ UNCHANGED <<callLog, initVars, framebufferResized_, curFrame_,
                 commandBuffers_, uniformBuffers_, gpuQueue, swapChainLive,
                 windowVars, rcLocals, dfLocals, mainVars, lastSubmit, rcLog,
                 pickVars, deviceVars, waitErrors>>

\* vkResetCommandBuffer; recordCommandBuffer(commandBuffers_[curFrame_], imageIndex)
DfRecord ==
  /\ pc = "record"
  /\ commandBuffers_' = [commandBuffers_ EXCEPT ![curFrame_] = imageIndex + 1]
  /\ frameLog' = Append(frameLog, "record")
  /\ pc' = StepAfter("record")
  /\ UNCHANGED <<callLog, initVars, framebufferResized_, curFrame_,
                 inFlightFences_, uniformBuffers_, gpuQueue, swapChainLive,
                 windowVars, rcLocals, dfLocals, mainVars, lastSubmit, rcLog,
                 pickVars, deviceVars, waitErrors>>

\* recordCommandBuffer throws: vkBeginCommandBuffer or vkEndCommandBuffer failed
DfRecordThrow ==
  /\ pc = "record"
  /\ commandBuffers_' = [commandBuffers_ EXCEPT ![curFrame_] = 0]
  /\ frameLog' = Append(frameLog, "record")
  /\ \E msg \in {"Failed to begin recording command buffer!",
                 "Failed to record command buffer!"} : Throw(msg)
  /\ UNCHANGED <<callLog, initVars, framebufferResized_, curFrame_,
                 inFlightFences_, uniformBuffers_, gpuQueue, swapChainLive,
                 windowVars, rcLocals, dfLocals, exitCode, lastSubmit, rcLog,
                 pickVars, deviceVars, waitErrors>>

\* updateUniformBuffer(curFrame_): writes the matrices for the current time
\* through uniformBuffersMapped_[curFrame_]
DfUpdateUniformBuffer ==
  /\ pc = "updateUniformBuffer"
  /\ uniformBuffersMapped_[curFrame_]
  /\ \E t \in Times :
       uniformBuffers_' = [uniformBuffers_ EXCEPT ![curFrame_] = t]
  /\ frameLog' = Append(frameLog, "updateUniformBuffer")
  /\ pc' = StepAfter("updateUniformBuffer")
  /\ UNCHANGED <<callLog, initVars, framebufferResized_, curFrame_,
                 inFlightFences_, commandBuffers_, gpuQueue, swapChainLive,
                 windowVars, rcLocals, dfLocals, mainVars, lastSubmit, rcLog,
                 pickVars, deviceVars, waitErrors>>

\* updateUniformBuffer(curFrame_): the memcpy to the null pointer a failed
\* vkMapMemory left in uniformBuffersMapped_[curFrame_] kills the process
DfUpdateUniformBufferCrash ==
  /\ pc = "updateUniformBuffer"
  /\ ~uniformBuffersMapped_[curFrame_]
  /\ Crash
  /\ UNCHANGED <<callLog, initVars, framebufferResized_, frameMembers,
                 gpuQueue, swapChainLive, windowVars, rcLocals, dfLocals,
                 frameLog, thrown, lastSubmit, rcLog, pickVars, deviceVars,
                 waitErrors>>

\* vkQueueSubmit(graphicsQueue_, 1, &submitInfo, inFlightFences_[curFrame_])
DfSubmit ==
  /\ pc = "submit"
  /\ gpuQueue' = Append(gpuQueue,
                        [fence |-> curFrame_,
                         wait |-> WaitSemaphores(curFrame_),
                         signal |-> SignalSemaphores(curFrame_),
                         image |-> commandBuffers_[curFrame_] - 1])
  /\ lastSubmit' = <<curFrame_>>
  /\ frameLog' = Append(frameLog, "submit")
  /\ pc' = StepAfter("submit")
  /\ UNCHANGED <<callLog, initVars, framebufferResized_, frameMembers,
                 swapChainLive, windowVars, rcLocals, dfLocals,
                 mainVars, rcLog, pickVars, deviceVars, waitErrors>>

\* vkQueueSubmit fails
DfSubmitThrow ==
  /\ pc = "submit"
  /\ Throw("Failed to submit draw command buffer!")
  /\ UNCHANGED <<callLog, initVars, framebufferResized_, frameMembers,
                 gpuQueue, swapChainLive, windowVars, rcLocals, dfLocals,
                 frameLog, exitCode, lastSubmit, rcLog, pickVars, deviceVars,
                 waitErrors>>

\* result = vkQueuePresentKHR(presentQueue_, &presentInfo)
DfPresentPollsEvents ==
  /\ pc = "present"
  /\ \E res \in VkResults : result' = res
  /\ \E d \in Deliveries : Deliver(d)
  /\ presentQueue' = Append(presentQueue,
                            [wait |-> SignalSemaphores(curFrame_),
                             image |-> imageIndex])
  /\ swapChainImages' = [swapChainImages EXCEPT ![imageIndex] = "queued"]
  /\ frameLog' = Append(frameLog, "present")
  /\ pc' = StepAfter("present")
  /\ UNCHANGED <<callLog, initVars, frameMembers, gpuQueue, swapChainLive,
                 rcLocals, imageIndex, acquireResult, mainVars, lastSubmit,
                 rcLog, pickVars, imageAvailableSemaphores_,
                 renderFinishedSemaphores_, waitErrors>>

\* presentInfo.pWaitSemaphores = signalSemaphores; pImageIndices = &imageIndex
\* the request is queued whatever the result
DfPresent ==
  /\ pc = "present"
  /\ \E res \in VkResults : result' = res
  /\ presentQueue' = Append(presentQueue,
                            [wait |-> SignalSemaphores(curFrame_),
                             image |-> imageIndex])
  /\ swapChainImages' = [swapChainImages EXCEPT ![imageIndex] = "queued"]
  /\ frameLog' = Append(frameLog, "present")
  /\ pc' = StepAfter("present")
  /\ UNCHANGED <<callLog, initVars, framebufferResized_, frameMembers,
                 gpuQueue, swapChainLive, windowVars, rcLocals, imageIndex,
                 acquireResult, mainVars, lastSubmit, rcLog, pickVars,
                 imageAvailableSemaphores_, renderFinishedSemaphores_,
                 waitErrors>>

\* the branch after vkQueuePresentKHR
DfPresentCheck ==
  /\ pc = "check"
  /\ CASE PresentBranch(result, framebufferResized_) = "recreate" ->
            /\ framebufferResized_' = FALSE
            /\ rcReturn' = "advance"
            /\ pc' = "rc_getSize"
            /\ UNCHANGED thrown
       [] PresentBranch(result, framebufferResized_) = "throw" ->
            /\ Throw("Failed to present swap chain image!")
            /\ UNCHANGED <<framebufferResized_, rcReturn>>
       [] OTHER ->
            /\ pc' = "advance"
            /\ UNCHANGED <<framebufferResized_, rcReturn, thrown>>
  /\ frameLog' = Append(frameLog, "check")
  /\ UNCHANGED <<callLog, initVars, frameMembers, gpuQueue, swapChainLive,
                 windowVars, width, height, dfLocals, exitCode, lastSubmit,
                 rcLog, pickVars, deviceVars, waitErrors>>

NextFrameSame(c) == c

\* the slot of the frame after a frame of slot c
NextFrame(c) == (c + 1) % MAX_FRAMES_IN_FLIGHT

\* curFrame_ = (curFrame_ + 1) % MAX_FRAMES_IN_FLIGHT; drawFrame returns
DfAdvance ==
  /\ pc = "advance"
  /\ curFrame_' = NextFrame(curFrame_)
  /\ frameLog' = Append(frameLog, "advance")
  /\ pc' = "ml_check"
  /\ UNCHANGED <<callLog, initVars, framebufferResized_, inFlightFences_,
                 commandBuffers_, uniformBuffers_, gpuQueue, swapChainLive,
                 windowVars, rcLocals, dfLocals, mainVars, lastSubmit, rcLog,
                 pickVars, deviceVars, waitErrors>>

\* ------------------------------------------------------------------------
\* recreateSwapChain()
\* ------------------------------------------------------------------------

\* cleanupSwapChain(): the destroy calls in program order
CleanupSwapChainSteps ==
  << "vkDestroyFramebuffer", "vkDestroyImageView", "vkDestroySwapchainKHR" >>

\* the three creation calls that end recreateSwapChain, in program order
RecreateSteps == << "createSwapChain", "createImageViews", "createFramebuffers" >>

\* the steps of RecreateSteps that have returned when step s throws
DoneBefore(s) ==
  LET i == CHOOSE k \in 1 .. Len(RecreateSteps) : RecreateSteps[k] = s
  IN  SubSeq(RecreateSteps, 1, i - 1)

\* int width = 0, height = 0; glfwGetFramebufferSize(window_, &width, &height);
RcGetSize ==
  /\ pc = "rc_getSize"
  /\ width' = fbSize[1]
  /\ height' = fbSize[2]
  /\ frameLog' = Append(frameLog, "recreateSwapChain")
  /\ rcLog' = << >>
  /\ pc' = "rc_while"
  /\ UNCHANGED <<callLog, initVars, framebufferResized_, frameMembers,
                 gpuQueue, swapChainLive, windowVars, rcReturn, dfLocals, mainVars,
                 lastSubmit, pickVars, deviceVars, waitErrors>>

\* loop body, first statement: glfwGetFramebufferSize(window_, &width, &height)
RcLoopGetSize ==
  /\ pc = "rc_while"
  /\ (width = 0 \/ height = 0)
  /\ width' = fbSize[1]
  /\ height' = fbSize[2]
  /\ pc' = "rc_waitEvents"
  /\ UNCHANGED <<callLog, initVars, framebufferResized_, frameMembers,
                 gpuQueue, swapChainLive, windowVars, rcReturn, dfLocals,
                 frameLog, mainVars, lastSubmit, rcLog, pickVars, deviceVars,
                 waitErrors>>

\* loop body, second statement: glfwWaitEvents() returns after some event
RcWaitEvents ==
  /\ pc = "rc_waitEvents"
  /\ \E d \in Deliveries : Deliver(d)
  /\ pc' = "rc_while"
  /\ UNCHANGED <<callLog, initVars, frameMembers, gpuQueue, swapChainLive,
                 rcLocals, dfLocals, frameLog, mainVars, lastSubmit, rcLog,
                 pickVars, deviceVars, waitErrors>>

\* the loop is left; vkDeviceWaitIdle(logicalDevice_)
RcDeviceWaitIdle ==
  /\ pc = "rc_while"
  /\ ~(width = 0 \/ height = 0)
  /\ WaitReturns(DeviceIdle)
  /\ rcLog' = Append(rcLog, "vkDeviceWaitIdle")
  /\ pc' = "rc_cleanup"
  /\ UNCHANGED <<callLog, initVars, framebufferResized_, frameMembers,
                 gpuQueue, swapChainLive, windowVars, rcLocals, dfLocals,
                 frameLog, mainVars, lastSubmit, pickVars, deviceVars>>

\* cleanupSwapChain(): framebuffers, image views and swapchain are destroyed
RcCleanupSwapChain ==
  /\ pc = "rc_cleanup"
  /\ cleanupSwapChain
  /\ rcLog' = rcLog \o CleanupSwapChainSteps
  /\ pc' = "rc_create"
  /\ UNCHANGED <<callLog, initVars, framebufferResized_, frameMembers,
                 windowVars, rcLocals, dfLocals, frameLog,
                 mainVars, lastSubmit, pickVars, imageAvailableSemaphores_,
                 renderFinishedSemaphores_, waitErrors>>

\* createSwapChain(); createImageViews(); createFramebuffers(); return
RcCreate ==
  /\ pc = "rc_create"
  /\ swapChainLive' = TRUE
  /\ rcLog' = rcLog \o RecreateSteps
  /\ width' = 0
  /\ height' = 0
  /\ rcReturn' = "none"
  /\ pc' = IF rcReturn = "advance" THEN "advance" ELSE "ml_check"
  /\ UNCHANGED <<callLog, initVars, framebufferResized_, frameMembers,
                 gpuQueue, windowVars, dfLocals, frameLog, mainVars,
                 lastSubmit, pickVars, deviceVars, waitErrors>>

\* one of the three creation calls throws; the calls before it have returned
\* (the swapchain is not complete: image views or framebuffers are missing)
RcCreateThrow ==
  /\ pc = "rc_create"
  /\ \E i \in 1 .. Len(RecreateSteps) :
       /\ \E msg \in Throws(RecreateSteps[i]) : Throw(msg)
       /\ rcLog' = rcLog \o DoneBefore(RecreateSteps[i])
  /\ UNCHANGED <<callLog, initVars, framebufferResized_, frameMembers,
                 gpuQueue, swapChainLive, windowVars, rcLocals, dfLocals,
                 frameLog, exitCode, lastSubmit, pickVars, deviceVars,
                 waitErrors>>

\* createSwapChain() runs into undefined behaviour and the process dies
RcCreateCrash ==
  /\ pc = "rc_create"
  /\ Crashes(RecreateSteps[1])
  /\ Crash
  /\ UNCHANGED <<callLog, initVars, framebufferResized_, frameMembers,
                 gpuQueue, swapChainLive, windowVars, rcLocals, dfLocals,
                 frameLog, thrown, lastSubmit, rcLog, pickVars, deviceVars,
                 waitErrors>>

\* ------------------------------------------------------------------------
\* pickPhysicalDevice()
\* ------------------------------------------------------------------------

\* a uint32_t, as its two 16-bit halves: the value is hi * 65536 + lo
U32(hi, lo) == [hi |-> hi, lo |-> lo]

\* an int converted to uint32_t (modulo 2^32)
ToU32(i) == U32((i \div 65536) % 65536, i % 65536)

\* a uint32_t converted to int (two's complement)
ToInt(u) ==
  IF u.hi >= 32768 THEN (u.hi - 65536) * 65536 + u.lo
  ELSE u.hi * 65536 + u.lo

\* a + b in uint32_t arithmetic (modulo 2^32)
AddU32(a, b) ==
  LET lo == a.lo + b.lo
  IN  U32((a.hi + b.hi + lo \div 65536) % 65536, lo % 65536)

\* score += x, score an int and x a uint32_t: the sum is computed in
\* uint32_t and converted back to int
AddAssign(score, x) == ToInt(AddU32(ToU32(score), x))

\* values of limits.maxImageDimension2D (a uint32_t) that the devices report:
\* 0, 1, 1000, 2^31 - 1 and 2^32 - 1
Dimensions ==
  {U32(0, 0), U32(0, 1), U32(0, 1000), U32(32767, 65535), U32(65535, 65535)}

\* what vkGetPhysicalDeviceProperties / vkGetPhysicalDeviceFeatures report
DeviceKinds ==
  [geometryShader : BOOLEAN, discrete : BOOLEAN,
   maxImageDimension2D : Dimensions]

\* the device lists vkEnumeratePhysicalDevices can report
DeviceLists == UNION { [1 .. n -> DeviceKinds] : n \in 0 .. MaxDevices }

\* rateDeviceSuitability(device): the score is an int
rateDeviceSuitability(d) ==
  LET score0 == 0
      score1 == IF d.discrete THEN score0 + 1000 ELSE score0
      score2 == AddAssign(score1, d.maxImageDimension2D)
  IN  IF ~d.geometryShader THEN 0 ELSE score2

\* std::multimap::insert: the pair goes after the pairs whose key is smaller
\* or equal (equal keys keep their order of insertion)
MultimapInsert(m, pair) ==
  LET n == Cardinality({ i \in 1 .. Len(m) : m[i][1] <= pair[1] })
  IN  SubSeq(m, 1, n) \o <<pair>> \o SubSeq(m, n + 1, Len(m))

\* candidates.rbegin(): the last pair in key order
Rbegin(m) == m[Len(m)]

\* vkEnumeratePhysicalDevices; if (deviceCount == 0) throw
PickEnumerate ==
  /\ pc = "pick_enumerate"
  /\ IF Len(devices) = 0
     THEN Throw("Failed to find GPUs with Vulkan Support!")
     ELSE pc' = "pick_rate" /\ UNCHANGED thrown
  /\ UNCHANGED <<callLog, initVars, framebufferResized_, frameMembers,
                 gpuQueue, swapChainLive, windowVars, rcLocals, dfLocals,
                 frameLog, lastSubmit, rcLog, exitCode, pickVars, deviceVars,
                 waitErrors>>

\* one iteration of: for (device : devices) candidates.insert({score, device})
PickRate ==
  /\ pc = "pick_rate"
  /\ Len(candidates) < Len(devices)
  /\ LET k == Len(candidates) + 1
         score == rateDeviceSuitability(devices[k])
     IN  candidates' = MultimapInsert(candidates, <<score, k>>)
  /\ UNCHANGED <<pc, callLog, initVars, framebufferResized_, frameMembers,
                 gpuQueue, swapChainLive, windowVars, rcLocals, dfLocals,
                 frameLog, lastSubmit, rcLog, mainVars, devices,
                 vkPhysicalDevice_, deviceVars,
                 waitErrors>>

\* if (candidates.rbegin()->first > 0) select it, else throw
PickSelect ==
  /\ pc = "pick_rate"
  /\ Len(candidates) = Len(devices)
  /\ IF Rbegin(candidates)[1] > 0
     THEN /\ vkPhysicalDevice_' = Rbegin(candidates)[2]
          /\ pc' = "pick_returned"
          /\ UNCHANGED thrown
     ELSE /\ Throw("Failed to find a suitable GPU")
          /\ UNCHANGED vkPhysicalDevice_
  /\ UNCHANGED <<callLog, initVars, framebufferResized_, frameMembers,
                 gpuQueue, swapChainLive, windowVars, rcLocals, dfLocals,
                 frameLog, lastSubmit, rcLog, exitCode, devices, candidates,
                 deviceVars, waitErrors>>

\* pickPhysicalDevice returns to initVulkan
PickReturn ==
  /\ pc = "pick_returned"
  /\ initStep <= Len(InitOrder)
  /\ InitOrder[initStep] = PickStep
  /\ initStep' = initStep + 1
  /\ pc' = "initVulkan"
  /\ UNCHANGED <<callLog, initLog, membersSet, readUnset,
                 enableValidationLayers,
                 uniformBuffersMapped_, framebufferResized_, frameMembers,
                 gpuQueue, swapChainLive, windowVars, rcLocals, dfLocals,
                 frameLog, lastSubmit, rcLog, mainVars, pickVars, deviceVars,
                 waitErrors>>

\* pickPhysicalDevice called with any list of devices
PickInit ==
  /\ pc = "pick_enumerate"
  /\ InitApp
  /\ devices \in DeviceLists
  /\ candidates = << >>
  /\ vkPhysicalDevice_ = VK_NULL_HANDLE
  /\ waitErrors = 0

PickNext == PickEnumerate \/ PickRate \/ PickSelect

PickSpec == PickInit /\ [][PickNext]_vars

\* ------------------------------------------------------------------------
\* Specification
\* ------------------------------------------------------------------------

Next ==
  \/ InitWindow
  \/ InitWindowCrash
  \/ InitVulkanStep
  \/ InitQueueWaitIdle
  \/ InitQueueWaitIdleCrash
  \/ InitVulkanThrow
  \/ InitVulkanCrash
  \/ InitVulkanReturn
  \/ PickEnumerate
  \/ PickRate
  \/ PickSelect
  \/ PickReturn
  \/ MlPollEvents
  \/ MlExit
  \/ MlDeviceWaitIdle
  \/ Cleanup
  \/ MainCatch
  \/ MainReturn
  \/ GpuFinish
  \/ PresentExec
  \/ DfWaitForFences
  \/ DfAcquire
  \/ DfResetFences
  \/ DfRecord
  \/ DfRecordThrow
  \/ DfUpdateUniformBuffer
  \/ DfUpdateUniformBufferCrash
  \/ DfSubmit
  \/ DfSubmitThrow
  \/ DfPresent
  \/ DfPresentCheck
  \/ DfAdvance
  \/ RcGetSize
  \/ RcLoopGetSize
  \/ RcWaitEvents
  \/ RcDeviceWaitIdle
  \/ RcCleanupSwapChain
  \/ RcCreate
  \/ RcCreateThrow
  \/ RcCreateCrash

Spec == Init /\ [][Next]_vars

\* the steps in which no wait call fails
NextNoWaitError == Next /\ waitErrors' = waitErrors

\* drawFrame(): any of its steps
drawFrame ==
  \/ DfWaitForFences
  \/ DfAcquire
  \/ DfResetFences
  \/ DfRecord
  \/ DfRecordThrow
  \/ DfUpdateUniformBuffer
  \/ DfUpdateUniformBufferCrash
  \/ DfSubmit
  \/ DfSubmitThrow
  \/ DfPresent
  \/ DfPresentCheck
  \/ DfAdvance

\* no wait call fails, the device finishes the work submitted to it, and the
\* host thread, once inside drawFrame, keeps running it (it returns from
\* vkWaitForFences once the fence is signaled)
FairSpec ==
  /\ Init
  /\ [][NextNoWaitError]_vars
  /\ WF_vars(GpuFinish)
  /\ WF_vars(drawFrame /\ waitErrors' = waitErrors)

TypeOK ==
  /\ curFrame_ \in Slots
  /\ inFlightFences_ \in [Slots -> BOOLEAN]
  /\ framebufferResized_ \in BOOLEAN
  /\ exitCode \in {NotExited, EXIT_SUCCESS, EXIT_FAILURE, SIGSEGV}
  /\ waitErrors \in 0 .. MaxWaitErrors
  /\ Len(initLog) <= Len(InitOrder)
  /\ uniformBuffersMapped_ \in [Slots -> BOOLEAN]
  /\ vkPhysicalDevice_ \in 0 .. MaxDevices

\* ------------------------------------------------------------------------
\* Properties
\* ------------------------------------------------------------------------

Range(q) == { q[i] : i \in 1 .. Len(q) }

IsPrefix(p, q) == Len(p) <= Len(q) /\ SubSeq(q, 1, Len(p)) = p

\* the frame submissions (those of drawFrame, which name the fence of their
\* slot) that the graphics queue has not finished
FrameSubmissions == SelectSeq(gpuQueue, LAMBDA s : s.fence \in Slots)

\* the slots whose submission the graphics queue has not finished
PendingSlots ==
  { FrameSubmissions[i].fence : i \in 1 .. Len(FrameSubmissions) }

\* initVulkan() has run all of its creation steps
InitDone == initStep > Len(InitOrder)

\* the host thread is inside drawFrame proper (not in recreateSwapChain)
InFrameSteps == pc \in Range(FrameSteps)

\* the program has ended: an exception is on its way to main's catch clause,
\* or the process was killed
ProgramEnded == thrown # "" \/ exitCode = SIGSEGV

\* the branch after the present has been taken on a present result that is
\* none of VK_SUCCESS, VK_SUBOPTIMAL_KHR, VK_ERROR_OUT_OF_DATE_KHR
PresentFailed ==
  /\ frameLog # << >>
  /\ frameLog[Len(frameLog)] \in {"check", "recreateSwapChain"}
  /\ "check" \in Range(frameLog)
  /\ result \notin {VK_SUCCESS, VK_SUBOPTIMAL_KHR, VK_ERROR_OUT_OF_DATE_KHR}

\* C1: the command buffer and the uniform buffer of a slot are rewritten, and
\* its fence reset, only while no submission that used the slot is still
\* unfinished (the fence of the slot has been waited on in this call), and at
\* most MAX_FRAMES_IN_FLIGHT submissions are unfinished at any time.
C1_SlotReusedAfterFence ==
  /\ (pc \in {"resetFences", "record", "updateUniformBuffer", "submit"}) =>
        /\ "waitForFences" \in Range(frameLog)
        /\ curFrame_ \notin PendingSlots
  /\ Len(FrameSubmissions) <= MAX_FRAMES_IN_FLIGHT

\* a drawFrame call has started with framebufferResized_ set
ResizePending == framebufferResized_ /\ pc = "waitForFences"

\* drawFrame has entered recreateSwapChain
RecreateEntered == pc = "rc_getSize"

\* C2: framebufferResized_, once set, stays set until drawFrame clears it, and
\* drawFrame clears it only on entering recreateSwapChain; a drawFrame call
\* that finds it set gets there both from an out-of-date acquire and from the
\* check after vkQueuePresentKHR, whatever the present result; and, in the
\* runs in which no wait call fails and the device finishes what was
\* submitted, every drawFrame call that starts with the flag set is
\* eventually followed by an entry into recreateSwapChain, unless the program
\* ends first (an exception or a kill).
C2_ResizeLeadsToRecreate ==
  /\ [][ /\ (framebufferResized_ /\ ~framebufferResized_') =>
              (pc \in {"acquire", "check"} /\ pc' = "rc_getSize")
         /\ (framebufferResized_ /\ pc = "check" /\ pc' # pc) =>
              (pc' = "rc_getSize" /\ ~framebufferResized_'
                 /\ rcReturn' = "advance")
         /\ (framebufferResized_ /\ pc = "acquire"
                /\ acquireResult' = VK_ERROR_OUT_OF_DATE_KHR) =>
              (pc' = "rc_getSize" /\ ~framebufferResized_'
                 /\ rcReturn' = "return")
       ]_vars
  /\ ResizePending ~> (RecreateEntered \/ ProgramEnded)

\* recreateSwapChain entered after a successful present, only because of the
\* resize flag, which has been cleared
C2_Witness ==
  /\ pc = "rc_getSize"
  /\ rcReturn = "advance"
  /\ result = VK_SUCCESS
  /\ ~framebufferResized_

RenderOrder ==
  << "waitForFences", "acquire", "resetFences", "record",
     "updateUniformBuffer", "submit", "present" >>

Min(a, b) == IF a < b THEN a ELSE b

\* C3: the steps of a drawFrame call that was not cut short by an out-of-date
\* acquire are a prefix of wait, acquire, reset fence, record, update uniform
\* buffer, submit, present (all seven once it has presented); a present is
\* preceded by a submit and a submit by an acquire that returned VK_SUCCESS or
\* VK_SUBOPTIMAL_KHR, in the same call.
C3_FrameStepOrder ==
  LET n == Min(Len(frameLog), Len(RenderOrder))
      pos(s) == CHOOSE i \in 1 .. Len(frameLog) : frameLog[i] = s
  IN  /\ (acquireResult # VK_ERROR_OUT_OF_DATE_KHR) =>
           SubSeq(frameLog, 1, n) = SubSeq(RenderOrder, 1, n)
      /\ ("advance" \in Range(frameLog)) => n = Len(RenderOrder)
      /\ ("present" \in Range(frameLog)) =>
           /\ "submit" \in Range(frameLog)
           /\ pos("submit") < pos("present")
      /\ ("submit" \in Range(frameLog)) =>
           /\ "acquire" \in Range(frameLog)
           /\ pos("acquire") < pos("submit")
           /\ acquireResult \in {VK_SUCCESS, VK_SUBOPTIMAL_KHR}

\* a drawFrame call has run to its end without recreating the swapchain
C3_Witness ==
  /\ pc = "ml_check"
  /\ frameLog = RenderOrder \o <<"check", "advance">>

FullCallLog ==
  << <<"call", "initWindow">>, <<"ret", "initWindow">>,
     <<"call", "initVulkan">>, <<"ret", "initVulkan">>,
     <<"call", "mainloop">>, <<"ret", "mainloop">>,
     <<"call", "cleanup">>, <<"ret", "cleanup">> >>

AllMembers == UNION { Writes(InitOrder[i]) : i \in 1 .. Len(InitOrder) }

\* C4 as stated: when main has returned, run() has executed each of
\* initWindow, initVulkan, mainloop and cleanup exactly once, in that order
C4_ExactlyOnce ==
  (pc = "exited") => callLog = FullCallLog

\* C4, amended: run() calls initWindow, initVulkan, mainloop, cleanup in that
\* order, each at most once, and each exactly once when run() returns;
\* mainloop is called only after every creation step of initVulkan has run,
\* cleanup only after mainloop has returned.
C4_RunOrder ==
  /\ IsPrefix(callLog, FullCallLog)
  /\ (pc \in {"run_returned"} \/ exitCode = EXIT_SUCCESS) =>
        callLog = FullCallLog
  /\ (<<"call", "mainloop">> \in Range(callLog)) =>
        (InitDone /\ AllMembers \subseteq membersSet)
  /\ (pc \in {"ml_check", "ml_idle", "rc_getSize", "rc_while",
              "rc_waitEvents", "rc_cleanup", "rc_create", "advance"}
        \/ InFrameSteps) =>
        callLog = SubSeq(FullCallLog, 1, 5)
  /\ (pc = "cleanup") => callLog = SubSeq(FullCallLog, 1, 7)

\* run() has returned after all four phases
C4_Witness ==
  /\ pc = "run_returned"
  /\ Len(callLog) = 8
  /\ shouldClose

ClaimedInitOrder ==
  << "createInstance", "setupDebugMessenger", "createSurface",
     "pickPhysicalDevice", "createLogicalDevice", "createSwapChain",
     "createImageViews", "createRenderPass", "createDescriptorSetLayout",
     "createGraphicsPipeline", "createFramebuffers", "createCommandPool",
     "createVertexBuffer", "createIndexBuffer", "createUniformBuffers",
     "createDescriptorPool", "createDescriptorSets", "createCommandBuffers",
     "createSyncObjects" >>

\* C5: the creation steps initVulkan has called so far are, in the order of
\* their calls, the first steps of
\* the order instance, debug messenger, surface, physical device, logical
\* device, swapchain, image views, render pass, descriptor set layout,
\* pipeline, framebuffers, command pool, vertex, index and uniform buffers,
\* descriptor pool, descriptor sets, command buffers, sync objects (all of
\* them once initVulkan is through); the objects of every step that has
\* returned exist; and no step has read a member that no earlier step (or
\* initWindow) had set.
C5_InitOrderNoUnsetRead ==
  /\ readUnset = {}
  /\ IsPrefix(initLog, ClaimedInitOrder)
  /\ InitDone => initLog = ClaimedInitOrder
  /\ \A i \in 1 .. Len(initLog) :
        i < initStep => Writes(initLog[i]) \subseteq membersSet

\* initVulkan has completed with validation layers enabled
C5_Witness ==
  /\ InitDone
  /\ pc = "ml_check"
  /\ enableValidationLayers
  /\ AllMembers \subseteq membersSet

\* a call of initWindow or of a creation step has failed, or an acquire or a
\* present of drawFrame has returned an error, and the step after the failure
\* has been taken
StepFailed ==
  \/ pc = "crashed" /\ ~InitDone
  \/ PresentFailed
  \/ /\ "acquire" \in Range(frameLog)
     /\ acquireResult \notin {VK_SUCCESS, VK_SUBOPTIMAL_KHR,
                               VK_ERROR_OUT_OF_DATE_KHR}

\* C6: main returns EXIT_FAILURE exactly when run() ended with an exception,
\* and EXIT_SUCCESS exactly when run() returned, which it does only after the
\* window was asked to close and cleanup has returned; and every failed
\* creation step, acquire or present ends run() with an exception, which is
\* on its way to main's catch clause or has made main return EXIT_FAILURE.
C6_ExitCode ==
  /\ (pc # "exited") => exitCode \notin {EXIT_SUCCESS, EXIT_FAILURE}
  /\ (pc = "exited") =>
        /\ exitCode \in {EXIT_SUCCESS, EXIT_FAILURE}
        /\ (exitCode = EXIT_FAILURE) <=> (thrown # "")
        /\ (exitCode = EXIT_SUCCESS) <=>
             (thrown = "" /\ callLog = FullCallLog /\ shouldClose)
  /\ StepFailed => (thrown # "" /\ pc \in {"catch", "exited"})

\* C7: framebufferResized_ becomes true only in a step that processes window
\* events (glfwPollEvents of mainloop, glfwWaitEvents of recreateSwapChain) and
\* becomes false only in a step of drawFrame (the two branches that call
\* recreateSwapChain); from the image acquisition up to the check after the
\* present it does not change unless the step enters recreateSwapChain.
C7_FlagWriters ==
  [][ /\ (~framebufferResized_ /\ framebufferResized_') =>
           (pc \in {"ml_check", "rc_waitEvents"})
      /\ (framebufferResized_ /\ ~framebufferResized_') =>
           (pc \in {"acquire", "check"})
      /\ (pc \in {"acquire", "resetFences", "record", "updateUniformBuffer",
                  "submit", "present", "check"} /\ pc' # "rc_getSize") =>
           (framebufferResized_' = framebufferResized_)
    ]_vars

\* the flag set by glfwPollEvents is still set at the check after the present
C7_Witness ==
  /\ pc = "check"
  /\ framebufferResized_
  /\ frameLog = RenderOrder

\* while the program runs, every fence is signaled, or a submission that will
\* signal it is pending, or drawFrame has reset it in this call, after a
\* successful acquire, and has not yet reached its submit
FenceSignaledOrPending ==
  (InitDone /\ ~ProgramEnded) =>
    \A f \in Slots :
      \/ inFlightFences_[f]
      \/ f \in PendingSlots
      \/ /\ f = curFrame_
         /\ InFrameSteps
         /\ "resetFences" \in Range(frameLog)
         /\ "submit" \notin Range(frameLog)
         /\ acquireResult \in {VK_SUCCESS, VK_SUBOPTIMAL_KHR}

\* C8: in the runs in which no wait call fails: once the sync objects exist
\* and while the program has not ended, the fence of every slot is signaled,
\* or has a pending submission that will signal it, or was reset by the
\* running drawFrame call on the path to its submit; hence no return of
\* drawFrame (the early return included) leaves a fence unsignaled with
\* nothing pending, and, the device finishing what was submitted, every
\* vkWaitForFences at the start of drawFrame returns.
C8_FenceNeverStuck ==
  /\ []FenceSignaledOrPending
  /\ (pc = "waitForFences") ~> (pc # "waitForFences")

\* drawFrame waits on a fence that is unsignaled, with the submission that
\* will signal it pending
C8_Witness ==
  /\ pc = "waitForFences"
  /\ ~inFlightFences_[curFrame_]
  /\ curFrame_ \in PendingSlots
  /\ Len(gpuQueue) = MAX_FRAMES_IN_FLIGHT

\* C9: in a drawFrame call whose acquire returned VK_ERROR_OUT_OF_DATE_KHR the
\* only steps are the fence wait, the acquire and recreateSwapChain, which is
\* entered with framebufferResized_ false; nothing is submitted or presented,
\* the fence of the slot is not reset, curFrame_ and the command buffer and
\* uniform buffer of the slot keep their values, and recreateSwapChain
\* returns to the main loop without advancing the frame.
C9_OutOfDateAcquire ==
  /\ [] ( (acquireResult = VK_ERROR_OUT_OF_DATE_KHR) =>
            /\ IsPrefix(frameLog,
                        <<"waitForFences", "acquire", "recreateSwapChain">>)
            /\ Len(frameLog) >= 2
            /\ (pc = "rc_getSize" => ~framebufferResized_)
            /\ pc \in {"rc_getSize", "rc_while", "rc_waitEvents", "rc_cleanup",
                       "rc_create", "ml_check", "ml_idle", "cleanup",
                       "run_returned", "catch", "exited", "crashed"} )
  /\ [][ (acquireResult' = VK_ERROR_OUT_OF_DATE_KHR) =>
            /\ curFrame_' = curFrame_
            /\ commandBuffers_' = commandBuffers_
            /\ uniformBuffers_' = uniformBuffers_
            /\ (inFlightFences_[curFrame_] => inFlightFences_'[curFrame_])
            /\ (pc = "acquire" => (pc' = "rc_getSize" /\ ~framebufferResized_'))
            /\ (pc = "rc_create" =>
                  pc' \in {"rc_create", "ml_check", "catch", "crashed"})
       ]_vars

\* drawFrame has returned early from a slot that holds a recorded frame
C9_Witness ==
  /\ pc = "ml_check"
  /\ acquireResult = VK_ERROR_OUT_OF_DATE_KHR
  /\ frameLog = <<"waitForFences", "acquire", "recreateSwapChain">>
  /\ commandBuffers_[curFrame_] # 0
  /\ uniformBuffers_[curFrame_] # 0

\* C10: whenever vkQueuePresentKHR returns a result other than VK_SUCCESS,
\* VK_SUBOPTIMAL_KHR or VK_ERROR_OUT_OF_DATE_KHR, drawFrame throws "Failed to
\* present swap chain image!" and does not recreate the swapchain, whatever
\* framebufferResized_ is (stated for the runs in which no wait call fails).
C10_PresentFailureThrows ==
  (PresentFailed /\ waitErrors = 0) =>
    /\ thrown = "Failed to present swap chain image!"
    /\ "recreateSwapChain" \notin Range(frameLog)
    /\ pc \in {"catch", "exited"}

\* C11: an acquire result other than VK_SUCCESS, VK_SUBOPTIMAL_KHR and
\* VK_ERROR_OUT_OF_DATE_KHR makes drawFrame throw "Failed to acquire swap
\* chain image!" with only the fence wait and the acquire done (fence of the
\* slot not reset, nothing recorded, submitted or presented); with
\* VK_SUBOPTIMAL_KHR, as with VK_SUCCESS, the acquire step is followed by the
\* fence reset and no exception, and a call that returns has submitted and
\* presented.
C11_AcquireFailure ==
  /\ [] ( (acquireResult \notin {NoResult, VK_SUCCESS, VK_SUBOPTIMAL_KHR,
                                 VK_ERROR_OUT_OF_DATE_KHR}) =>
            /\ thrown = "Failed to acquire swap chain image!"
            /\ pc \in {"catch", "exited"}
            /\ frameLog = <<"waitForFences", "acquire">> )
  /\ [] ( (acquireResult \in {VK_SUCCESS, VK_SUBOPTIMAL_KHR}
             /\ pc = "ml_check") =>
            IsPrefix(RenderOrder, frameLog) )
  /\ [][ (pc = "acquire"
            /\ acquireResult' \in {VK_SUCCESS, VK_SUBOPTIMAL_KHR}) =>
           (pc' = "resetFences" /\ thrown' = "")
       ]_vars
  /\ [][ (acquireResult' \notin {NoResult, VK_SUCCESS, VK_SUBOPTIMAL_KHR,
                                  VK_ERROR_OUT_OF_DATE_KHR}) =>
           (commandBuffers_' = commandBuffers_
              /\ uniformBuffers_' = uniformBuffers_)
       ]_vars

\* the acquire failed on a slot that holds a recorded frame, and drawFrame
\* has thrown
C11_Witness ==
  /\ pc = "catch"
  /\ thrown = "Failed to acquire swap chain image!"
  /\ acquireResult = VK_ERROR_DEVICE_LOST
  /\ commandBuffers_[curFrame_] # 0

\* number of times step s occurs in log q
Count(q, s) == Cardinality({ i \in 1 .. Len(q) : q[i] = s })

\* C12: curFrame_ is always a slot; it changes only in the last step of a
\* drawFrame call that has submitted and presented, to (curFrame_ + 1) mod
\* MAX_FRAMES_IN_FLIGHT, and every such call that returns does so through
\* that step exactly once, also after recreateSwapChain; each submit uses the
\* slot after the slot of the submit before it.
C12_CurFrameRoundRobin ==
  /\ [] (curFrame_ \in Slots)
  /\ [] ( (pc = "ml_check" /\ "present" \in Range(frameLog)) =>
            /\ frameLog[Len(frameLog)] = "advance"
            /\ Count(frameLog, "advance") = 1 )
  /\ [][ /\ (curFrame_' # curFrame_) =>
              /\ pc = "advance"
              /\ "submit" \in Range(frameLog)
              /\ "present" \in Range(frameLog)
         /\ (pc = "advance" /\ pc' # pc) =>
              /\ curFrame_' = (curFrame_ + 1) % MAX_FRAMES_IN_FLIGHT
              /\ pc' = "ml_check"
         /\ (lastSubmit' # lastSubmit /\ lastSubmit # << >>) =>
              lastSubmit'[1] = (lastSubmit[1] + 1) % MAX_FRAMES_IN_FLIGHT
         /\ (Count(frameLog', "submit") > Count(frameLog, "submit")) =>
              lastSubmit' = <<curFrame_>>
       ]_vars

\* a call that recreated the swapchain after its present has returned, and
\* the frame has moved on to slot 0 again
C12_Witness ==
  /\ pc = "ml_check"
  /\ frameLog = RenderOrder \o <<"check", "recreateSwapChain", "advance">>
  /\ lastSubmit = <<MAX_FRAMES_IN_FLIGHT - 1>>
  /\ curFrame_ = 0

\* C16: recreateSwapChain destroys and creates only after it has read a
\* non-zero framebuffer size, and it blocks in glfwWaitEvents only while the
\* framebuffer size is still zero: once an event has restored the size, no
\* further event is waited for (stated for the runs in which no wait call
\* fails).
C16_MinimizedWait ==
  waitErrors = 0 =>
    /\ (pc \in {"rc_cleanup", "rc_create"}) => (width # 0 /\ height # 0)
    /\ (pc = "rc_waitEvents") => (fbSize[1] = 0 \/ fbSize[2] = 0)

\* the host thread is inside recreateSwapChain, past its wait loop
RcPastLoop == pc \in {"rc_cleanup", "rc_create"}

\* C15: recreateSwapChain first observes a non-zero framebuffer size, then
\* waits for the device to be idle, then destroys framebuffers, image views
\* and swapchain, then creates swapchain, image views and framebuffers;
\* nothing is destroyed while submitted work is unfinished, and the new
\* swapchain is created only after the old one was destroyed.
C15_RecreateOrder ==
  /\ [] IsPrefix(rcLog,
                 << "vkDeviceWaitIdle", "vkDestroyFramebuffer",
                    "vkDestroyImageView", "vkDestroySwapchainKHR",
                    "createSwapChain", "createImageViews",
                    "createFramebuffers" >>)
  /\ [] (RcPastLoop => (width # 0 /\ height # 0))
  /\ [] ((pc = "rc_cleanup") => (rcLog = <<"vkDeviceWaitIdle">> /\ swapChainLive))
  /\ [] ((pc = "rc_create") => (Len(rcLog) = 4 /\ ~swapChainLive))
  /\ [][ /\ (rcLog' # rcLog /\ rcLog' # << >>) =>
              (pc \in {"rc_while", "rc_cleanup", "rc_create"})
         /\ (swapChainLive /\ ~swapChainLive') => gpuQueue = << >>
         /\ (pc = "rc_while" /\ pc' = "rc_cleanup") => gpuQueue = << >>
         /\ (pc = "rc_create" /\ pc' \in {"advance", "ml_check"}) =>
              (Len(rcLog') = 7 /\ swapChainLive')
       ]_vars

\* the rating the devices are said to have, as an unbounded number: the pair
\* <<h, l>> stands for h * 65536 + l, with l < 65536
ClaimedRating(d) ==
  IF ~d.geometryShader THEN <<0, 0>>
  ELSE LET l == d.maxImageDimension2D.lo + (IF d.discrete THEN 1000 ELSE 0)
       IN  <<d.maxImageDimension2D.hi + l \div 65536, l % 65536>>

\* r is at most s
RatingLeq(r, s) == r[1] < s[1] \/ (r[1] = s[1] /\ r[2] <= s[2])

\* the highest claimed rating among the enumerated devices
BestRating ==
  CHOOSE r \in { ClaimedRating(devices[k]) : k \in DOMAIN devices } :
    \A k \in DOMAIN devices : RatingLeq(ClaimedRating(devices[k]), r)

\* pickPhysicalDevice has ended, by a return or by a throw
PickEnded == pc \in {"pick_returned", "catch"}

\* C17: pickPhysicalDevice throws "Failed to find GPUs with Vulkan Support!"
\* when no device is enumerated and "Failed to find a suitable GPU" when the
\* highest rating is not greater than 0; otherwise it returns having selected
\* the last enumerated device among those whose rating is the maximum.
C17_PickPhysicalDevice ==
  PickEnded =>
    IF devices = << >>
    THEN /\ pc = "catch"
         /\ thrown = "Failed to find GPUs with Vulkan Support!"
         /\ vkPhysicalDevice_ = VK_NULL_HANDLE
    ELSE IF BestRating = <<0, 0>>
    THEN /\ pc = "catch"
         /\ thrown = "Failed to find a suitable GPU"
         /\ vkPhysicalDevice_ = VK_NULL_HANDLE
    ELSE /\ pc = "pick_returned"
         /\ thrown = ""
         /\ vkPhysicalDevice_ \in DOMAIN devices
         /\ ClaimedRating(devices[vkPhysicalDevice_]) = BestRating
         /\ \A k \in DOMAIN devices :
              ClaimedRating(devices[k]) = BestRating => k <= vkPhysicalDevice_

\* the semaphores that queued presentation requests still have to wait on
PresentWaits == { presentQueue[i].wait : i \in 1 .. Len(presentQueue) }

\* the last element of a non-empty sequence
Last(q) == q[Len(q)]

\* C13: the submit of a drawFrame call waits on the image-available semaphore
\* of slot curFrame_, the one its acquire was given, signals the
\* render-finished semaphore and the fence of slot curFrame_ and renders to
\* the image the acquire returned; its present waits on that render-finished
\* semaphore and presents that image. On the device a submission executes
\* only once its image has been acquired, and a presentation request only
\* once the rendering to its image has finished.
C13_AcquireRenderPresent ==
  [][ /\ (pc = "acquire" /\ pc' = "resetFences") =>
           /\ imageAvailableSemaphores_'[curFrame_]
           /\ \A f \in Slots \ {curFrame_} :
                imageAvailableSemaphores_'[f] = imageAvailableSemaphores_[f]
           /\ swapChainImages[imageIndex'] = "free"
           /\ swapChainImages'[imageIndex'] = "acquired"
      /\ (pc = "submit" /\ pc' = "present") =>
           /\ gpuQueue' = Append(gpuQueue, Last(gpuQueue'))
           /\ Last(gpuQueue').wait = <<"imageAvailable", curFrame_>>
           /\ Last(gpuQueue').signal = <<"renderFinished", curFrame_>>
           /\ Last(gpuQueue').fence = curFrame_
           /\ Last(gpuQueue').image = imageIndex
           /\ AcquiresImage(acquireResult)
           /\ curFrame_' = curFrame_ /\ imageIndex' = imageIndex
      /\ (pc = "present" /\ pc' = "check") =>
           /\ presentQueue' = Append(presentQueue, Last(presentQueue'))
           /\ Last(presentQueue').wait = <<"renderFinished", curFrame_>>
           /\ Last(presentQueue').image = imageIndex
           /\ lastSubmit = <<curFrame_>>
      /\ (Len(gpuQueue') < Len(gpuQueue)
            /\ Head(gpuQueue).fence \in Slots) =>
           /\ imageAvailableSemaphores_[Head(gpuQueue).wait[2]]
           /\ (Head(gpuQueue).image \in Images =>
                 swapChainImages[Head(gpuQueue).image] # "free")
           /\ renderFinishedSemaphores_'[Head(gpuQueue).signal[2]]
           /\ inFlightFences_'[Head(gpuQueue).fence]
      /\ (Len(presentQueue') < Len(presentQueue)) =>
           /\ renderFinishedSemaphores_[Head(presentQueue).wait[2]]
           /\ (Head(presentQueue).image \in Images =>
                 /\ \A i \in 1 .. Len(gpuQueue) :
                      gpuQueue[i].image # Head(presentQueue).image
                 /\ swapChainImages[Head(presentQueue).image] = "queued")
    ]_vars

\* the presentation request of a frame is queued behind the request of the
\* frame before it while the rendering of both frames is still unfinished
C13_Witness ==
  /\ pc = "check"
  /\ Len(gpuQueue) = MAX_FRAMES_IN_FLIGHT
  /\ Len(presentQueue) = MAX_FRAMES_IN_FLIGHT
  /\ Last(presentQueue) = [wait |-> SignalSemaphores(curFrame_),
                           image |-> imageIndex]
  /\ Last(gpuQueue).image = imageIndex
  /\ imageIndex # 0

\* C14: when a drawFrame call has submitted work that signals the
\* render-finished semaphore of its slot, no presentation request of an
\* earlier frame is still waiting on that semaphore: the fence wait of the
\* slot, when it succeeds, is enough, for any number of swapchain images.
C14_RenderFinishedNotInUse ==
  (pc = "present" /\ waitErrors = 0) =>
    (SignalSemaphores(curFrame_) \notin PresentWaits)

====
